---- MODULE Spec2Model ----
(***************************************************************************)
(* Model of the microlesson generator (src/microlesson.py): the question   *)
(* distribution configuration, the prompt builder and the content          *)
(* generator with its credential lookup and its single LLM client request. *)
(*                                                                         *)
(* Python values are modelled as follows.                                  *)
(*   str            a TLA+ string (\o, Len and SubSeq act on characters)   *)
(*   int            an integer (Python ints do not overflow)               *)
(*   Optional[T]    a sequence of length 0 (None) or 1 (the value)         *)
(*   **kwargs       a function whose domain is the set of names passed     *)
(*   an exception   a record [type, msg]                                   *)
(***************************************************************************)
EXTENDS Integers, Sequences, FiniteSets, TLC

VARIABLES
    kwargs,             \* keyword arguments handed to QuestionConfig(...)
    cfg,                \* Optional: the object the constructor call produced
    ret,                \* outcome of the latest library call on cfg
    secrets_readable,   \* st.secrets can be read (a secrets.toml exists)
    secrets,            \* contents of st.secrets
    environ,            \* os.environ
    pc,                 \* position inside generate_learning_content
    args,               \* arguments of the running generate_learning_content call
    keys,               \* (openrouter_key, cerebras_key) as resolved by get_api_key
    llm,                \* Optional: the ChatOpenAI object built for the selected backend
    prompt,             \* the prompt built for the running call
    requests,           \* requests received by the LLM client in the running call
    result,             \* Optional: what client.qna_engine.generate_questions returned
    caught,             \* Optional: the exception caught by the except clause
    outcome,            \* how the call ended: returned value or raised exception
    session,            \* st.session_state of the one user session (a dict)
    last_run,           \* what the latest run of main() took in and showed
    last_success        \* Optional: value returned by the latest successful generate call

vars == <<kwargs, cfg, ret, secrets_readable, secrets, environ, pc, args, keys,
          llm, prompt, requests, result, caught, outcome, session, last_run,
          last_success>>

configVars == <<kwargs, cfg, ret>>
envVars == <<secrets_readable, secrets, environ>>
callVars == <<pc, args, keys, llm, prompt, requests, result, caught, outcome>>
appVars == <<session, last_run, last_success>>

(***************************************************************************)
(* Bounds of the model.                                                    *)
(***************************************************************************)
\* largest count handed to the QuestionConfig constructor in SpecConfig
MaxCount == 2
\* largest count of a config handed to generate_learning_content in Spec
MaxGenCount == 1

(***************************************************************************)
(* Python helpers.                                                         *)
(***************************************************************************)
None == <<>>
Some(x) == <<x>>

Digit(d) ==
    CASE d = 0 -> "0" [] d = 1 -> "1" [] d = 2 -> "2" [] d = 3 -> "3"
      [] d = 4 -> "4" [] d = 5 -> "5" [] d = 6 -> "6" [] d = 7 -> "7"
      [] d = 8 -> "8" [] d = 9 -> "9"

\* str(n) / f"{n}" for an int n
RECURSIVE Str(_)
Str(n) ==
    IF n < 0 THEN "-" \o Str(0 - n)
    ELSE IF n < 10 THEN Digit(n)
    ELSE Str(n \div 10) \o Digit(n % 10)

\* sep.join(parts)
RECURSIVE Join(_, _)
Join(sep, parts) ==
    IF Len(parts) = 0 THEN ""
    ELSE IF Len(parts) = 1 THEN parts[1]
    ELSE parts[1] \o sep \o Join(sep, Tail(parts))

\* sub in s
Contains(s, sub) ==
    \E i \in 1..(Len(s) - Len(sub) + 1) : SubSeq(s, i, i + Len(sub) - 1) = sub

Exception(type, msg) == [type |-> type, msg |-> msg]

(***************************************************************************)
(* QuestionConfig (pydantic model, src/microlesson.py 87-113).             *)
(***************************************************************************)
\* the five count fields in declaration order
FieldNames == <<"mcq", "true_false", "fill_blank", "matching", "ordering">>

FieldSet == {FieldNames[i] : i \in 1..Len(FieldNames)}

\* Field(default=...) of each count
FieldDefault(f) ==
    CASE f = "mcq" -> 2
      [] f = "true_false" -> 2
      [] f = "fill_blank" -> 1
      [] f = "matching" -> 0
      [] f = "ordering" -> 0

\* a count field declared without ge=0
FieldConstraint_Unconstrained(v) == TRUE

\* Field(ge=0): the constraint every passed count is validated against
FieldConstraint(v) == v >= 0

\* pydantic's message for n failed fields
ValidationErrorMsg(n) ==
    Str(n) \o (IF n = 1 THEN " validation error" ELSE " validation errors")
           \o " for QuestionConfig"

\* QuestionConfig(**kw): the object, or pydantic's ValidationError.
\* Passed values are validated; fields left out take their default.
QuestionConfig(kw) ==
    LET bad == {f \in FieldSet \cap DOMAIN kw : ~FieldConstraint(kw[f])}
    IN IF bad # {}
       THEN [exc |-> Some(Exception("ValidationError",
                                    ValidationErrorMsg(Cardinality(bad)))),
             val |-> None]
       ELSE [exc |-> None,
             val |-> Some([f \in FieldSet |->
                             IF f \in DOMAIN kw THEN kw[f] ELSE FieldDefault(f)])]

\* total_questions that leaves the last field out of the sum
total_questions_NoOrdering(self) ==
    self.mcq + self.true_false + self.fill_blank + self.matching

\* QuestionConfig.total_questions (property)
total_questions(self) ==
    self.mcq + self.true_false + self.fill_blank + self.matching + self.ordering

\* to_prompt_string whose last test is >= 0: a zero count is listed
to_prompt_string_ZeroListed(self) ==
    LET p1 == IF self.mcq > 0
              THEN <<Str(self.mcq) \o " Multiple Choice (MCQ)">> ELSE <<>>
        p2 == IF self.true_false > 0
              THEN <<Str(self.true_false) \o " True/False">> ELSE <<>>
        p3 == IF self.fill_blank > 0
              THEN <<Str(self.fill_blank) \o " Fill in the Blank">> ELSE <<>>
        p4 == IF self.matching > 0
              THEN <<Str(self.matching) \o " Matching">> ELSE <<>>
        p5 == IF self.ordering >= 0
              THEN <<Str(self.ordering) \o " Ordering">> ELSE <<>>
    IN Join(", ", p1 \o p2 \o p3 \o p4 \o p5)

\* QuestionConfig.to_prompt_string
to_prompt_string(self) ==
    LET p1 == IF self.mcq > 0
              THEN <<Str(self.mcq) \o " Multiple Choice (MCQ)">> ELSE <<>>
        p2 == IF self.true_false > 0
              THEN <<Str(self.true_false) \o " True/False">> ELSE <<>>
        p3 == IF self.fill_blank > 0
              THEN <<Str(self.fill_blank) \o " Fill in the Blank">> ELSE <<>>
        p4 == IF self.matching > 0
              THEN <<Str(self.matching) \o " Matching">> ELSE <<>>
        p5 == IF self.ordering > 0
              THEN <<Str(self.ordering) \o " Ordering">> ELSE <<>>
    IN Join(", ", p1 \o p2 \o p3 \o p4 \o p5)

(***************************************************************************)
(* Prompt builder (src/microlesson.py 218-387).                            *)
(***************************************************************************)
Lit(s) == [kind |-> "lit", text |-> s]
Field(name) == [kind |-> "field", text |-> name]

\* DYNAMIC_PROMPT_TEMPLATE as its literal runs and replacement fields, in
\* order.  Every line that holds a replacement field is kept verbatim
\* (222-224, 262, 263, 321); of the long literal runs between them only the
\* ASCII heading lines are kept (221, 259, 261, 265, 267, 268, 315, 316,
\* 327, 328), the guidance prose is left out.
DYNAMIC_PROMPT_TEMPLATE ==
    << Lit("\nInput:\nTopic: "), Field("topic"),
       Lit("\nConcept: "), Field("concept"),
       Lit("\nConcept Description: "), Field("concept_description"),
       Lit("\n\n2. QUESTIONS (Test, Teach, Entertain)\nRequirements:\nGenerate EXACTLY "),
       Field("total_questions"),
       Lit(" questions with the following distribution:\n"),
       Field("question_distribution"),
       Lit("\n\nQUESTION TYPE DETAILS:\n\nA) MULTIPLE CHOICE (MCQ):\n   - Traditional 4-option question\n"),
       Lit("\nQuality Checklist\nBefore finalizing, verify:\n EXACTLY "),
       Field("total_questions"),
       Lit(" questions provided with the specified distribution\n"),
       Lit("\nCreator Notes:\nMobile-first focus!\n") >>

\* format(value, ""): an int is rendered in decimal, a str is itself
FormatValue(name, kw) ==
    IF name = "total_questions" THEN Str(kw[name]) ELSE kw[name]

\* str.format(**kw) over a template: every replacement field is replaced by
\* the formatted value of its keyword; substituted text is not re-read.
RECURSIVE Format(_, _)
Format(tpl, kw) ==
    IF Len(tpl) = 0 THEN ""
    ELSE (IF Head(tpl).kind = "lit" THEN Head(tpl).text
          ELSE FormatValue(Head(tpl).text, kw))
         \o Format(Tail(tpl), kw)

EmptyConfigMsg ==
    "Question configuration must have at least one question. All question counts are 0."

\* generate_content_prompt that formats the template before it checks the total
generate_content_prompt_FormatFirst(topic, concept, concept_description, question_config) ==
    LET qc == IF question_config = None
              THEN QuestionConfig(<<>>).val[1]
              ELSE question_config[1]
        text == Format(DYNAMIC_PROMPT_TEMPLATE,
                       [topic |-> topic,
                        concept |-> concept,
                        concept_description |-> concept_description,
                        total_questions |-> total_questions(qc),
                        question_distribution |-> to_prompt_string(qc)])
    IN IF total_questions(qc) = 0
       THEN [exc |-> Some(Exception("ValueError", EmptyConfigMsg)),
             val |-> None, formats |-> 1]
       ELSE [exc |-> None, val |-> Some(text), formats |-> 1]

\* generate_content_prompt that renders the baseline config's total and
\* distribution whatever config it was given
generate_content_prompt_Baseline(topic, concept, concept_description, question_config) ==
    LET qc == IF question_config = None
              THEN QuestionConfig(<<>>).val[1]
              ELSE question_config[1]
        base == QuestionConfig(<<>>).val[1]
    IN IF total_questions(qc) = 0
       THEN [exc |-> Some(Exception("ValueError", EmptyConfigMsg)),
             val |-> None, formats |-> 0]
       ELSE [exc |-> None,
             val |-> Some(Format(DYNAMIC_PROMPT_TEMPLATE,
                          [topic |-> topic,
                           concept |-> concept,
                           concept_description |-> concept_description,
                           total_questions |-> total_questions(base),
                           question_distribution |-> to_prompt_string(base)])),
             formats |-> 1]

\* generate_content_prompt without the zero-total check
generate_content_prompt_NoCheck(topic, concept, concept_description, question_config) ==
    LET qc == IF question_config = None
              THEN QuestionConfig(<<>>).val[1]
              ELSE question_config[1]
    IN [exc |-> None,
        val |-> Some(Format(DYNAMIC_PROMPT_TEMPLATE,
                     [topic |-> topic,
                      concept |-> concept,
                      concept_description |-> concept_description,
                      total_questions |-> total_questions(qc),
                      question_distribution |-> to_prompt_string(qc)])),
        formats |-> 1]

\* generate_content_prompt: the prompt, or ValueError for a zero-total config.
\* formats counts the calls of DYNAMIC_PROMPT_TEMPLATE.format it made.
generate_content_prompt(topic, concept, concept_description, question_config) ==
    LET qc == IF question_config = None
              THEN QuestionConfig(<<>>).val[1]
              ELSE question_config[1]
    IN IF total_questions(qc) = 0
       THEN [exc |-> Some(Exception("ValueError", EmptyConfigMsg)),
             val |-> None, formats |-> 0]
       ELSE [exc |-> None,
             val |-> Some(Format(DYNAMIC_PROMPT_TEMPLATE,
                          [topic |-> topic,
                           concept |-> concept,
                           concept_description |-> concept_description,
                           total_questions |-> total_questions(qc),
                           question_distribution |-> to_prompt_string(qc)])),
             formats |-> 1]

(***************************************************************************)
(* Credential lookup and backend selection (src/microlesson.py 391-456).   *)
(***************************************************************************)
KeyNames == {"OPENROUTER_API_KEY", "CEREBRAS_API_KEY"}

\* Mapping.get(name, default), for st.secrets.get and os.getenv
Get(store, name, default) ==
    IF name \in DOMAIN store THEN store[name] ELSE default

\* get_api_key: st.secrets first; the environment only when reading
\* st.secrets raises (no secrets file).
get_api_key(readable, secretStore, env) ==
    IF readable
    THEN << Get(secretStore, "OPENROUTER_API_KEY", ""),
            Get(secretStore, "CEREBRAS_API_KEY", "") >>
    ELSE << Get(env, "OPENROUTER_API_KEY", ""),
            Get(env, "CEREBRAS_API_KEY", "") >>

ChatOpenAI(model, openai_api_key, openai_api_base) ==
    [model |-> model, openai_api_key |-> openai_api_key,
     openai_api_base |-> openai_api_base]

NoKeyMsg ==
    "No API key found. Please configure OPENROUTER_API_KEY or CEREBRAS_API_KEY in secrets.toml or environment variables."

\* SetupLLM without the final else: a client is built around the empty key
SetupLLM_NoRaise(openrouter_key, cerebras_key) ==
    IF openrouter_key # ""
    THEN [exc |-> None,
          val |-> Some(ChatOpenAI("anthropic/claude-sonnet-4.5", openrouter_key,
                                  "https://openrouter.ai/api/v1"))]
    ELSE [exc |-> None,
          val |-> Some(ChatOpenAI("qwen-3-235b-a22b-thinking-2507", cerebras_key,
                                  "https://api.cerebras.ai/v1"))]

\* SetupLLM with the two branches tested in the other order
SetupLLM_CerebrasFirst(openrouter_key, cerebras_key) ==
    IF cerebras_key # ""
    THEN [exc |-> None,
          val |-> Some(ChatOpenAI("qwen-3-235b-a22b-thinking-2507", cerebras_key,
                                  "https://api.cerebras.ai/v1"))]
    ELSE IF openrouter_key # ""
    THEN [exc |-> None,
          val |-> Some(ChatOpenAI("anthropic/claude-sonnet-4.5", openrouter_key,
                                  "https://openrouter.ai/api/v1"))]
    ELSE [exc |-> Some(Exception("ValueError", NoKeyMsg)), val |-> None]

\* the if / elif / else of "Setup LLM": the ChatOpenAI object, or ValueError
SetupLLM(openrouter_key, cerebras_key) ==
    IF openrouter_key # ""
    THEN [exc |-> None,
          val |-> Some(ChatOpenAI("anthropic/claude-sonnet-4.5", openrouter_key,
                                  "https://openrouter.ai/api/v1"))]
    ELSE IF cerebras_key # ""
    THEN [exc |-> None,
          val |-> Some(ChatOpenAI("qwen-3-235b-a22b-thinking-2507", cerebras_key,
                                  "https://api.cerebras.ai/v1"))]
    ELSE [exc |-> Some(Exception("ValueError", NoKeyMsg)), val |-> None]

(***************************************************************************)
(* Values the LLM client can hand back, and Python's view of them.         *)
(***************************************************************************)
\* a Python value: its type, its length (containers and str) and attributes
PyValue(type, len, attrs) == [type |-> type, len |-> len, attrs |-> attrs]

PyNone == PyValue("NoneType", 0, <<>>)

\* instances of the question models (pydantic; every field is required
\* except question_type, and no str field has a minimum length)
MCQOption(text, correct) == [text |-> text, correct |-> correct]

MCQQuestion(question_text, options, explanation) ==
    PyValue("MCQQuestion", 0,
            [question_type |-> "mcq", question_text |-> question_text,
             options |-> options, explanation |-> explanation])

FillInBlankQuestion(question_text, correct_answer, distractors, explanation) ==
    PyValue("FillInBlankQuestion", 0,
            [question_type |-> "fill_blank", question_text |-> question_text,
             correct_answer |-> correct_answer, distractors |-> distractors,
             explanation |-> explanation])

TrueFalseQuestion(statement, correct_answer, explanation) ==
    PyValue("TrueFalseQuestion", 0,
            [question_type |-> "true_false", statement |-> statement,
             correct_answer |-> correct_answer, explanation |-> explanation])

MatchingPair(left, right) == [left |-> left, right |-> right]

MatchingQuestion(instruction, pairs, explanation) ==
    PyValue("MatchingQuestion", 0,
            [question_type |-> "matching", instruction |-> instruction,
             pairs |-> pairs, explanation |-> explanation])

OrderingQuestion(question_text, correct_order, explanation) ==
    PyValue("OrderingQuestion", 0,
            [question_type |-> "ordering", question_text |-> question_text,
             correct_order |-> correct_order, explanation |-> explanation])

\* BiteSizedContent instance (pydantic model; pre_read is a plain str field)
BiteSizedContent(pre_read, questions, summary, tags, concept_name, topic, estimated_time, difficulty_level) ==
    PyValue("BiteSizedContent", 0,
            [pre_read |-> pre_read, questions |-> questions,
             summary |-> summary, tags |-> tags, concept_name |-> concept_name,
             topic |-> topic, estimated_time |-> estimated_time,
             difficulty_level |-> difficulty_level])

\* the fields each question model requires (question_type has a default)
RequiredFields(type) ==
    CASE type = "MCQQuestion" -> {"question_text", "options", "explanation"}
      [] type = "FillInBlankQuestion" ->
            {"question_text", "correct_answer", "distractors", "explanation"}
      [] type = "TrueFalseQuestion" -> {"statement", "correct_answer", "explanation"}
      [] type = "MatchingQuestion" -> {"instruction", "pairs", "explanation"}
      [] type = "OrderingQuestion" -> {"question_text", "correct_order", "explanation"}

\* what response_model=BiteSizedContent enforces on a parsed lesson: the
\* eight fields are there and every question is an instance of one of the
\* five question models with its required fields.  The fields are typed
\* (str, bool, int, List) and carry no further constraint: the empty string
\* is a valid str.
SchemaAccepts(v) ==
    /\ v.type = "BiteSizedContent"
    /\ DOMAIN v.attrs = {"pre_read", "questions", "summary", "tags",
                         "concept_name", "topic", "estimated_time",
                         "difficulty_level"}
    /\ \A i \in 1..Len(v.attrs.questions) :
          LET q == v.attrs.questions[i]
          IN /\ q.type \in {"MCQQuestion", "FillInBlankQuestion",
                            "TrueFalseQuestion", "MatchingQuestion",
                            "OrderingQuestion"}
             /\ RequiredFields(q.type) \subseteq DOMAIN q.attrs

\* bool(v): None and empty containers are falsy; a pydantic model instance
\* defines neither __bool__ nor __len__ and is always truthy
Truthy(v) ==
    CASE v.type = "NoneType" -> FALSE
      [] v.type \in {"dict", "list", "str"} -> v.len > 0
      [] OTHER -> TRUE

\* hasattr(v, name)
HasAttr(v, name) == name \in DOMAIN v.attrs

\* the validation without its hasattr test
ResultValid_TruthyOnly(v) == Truthy(v)

\* "Validate result": the value passes when it is truthy and has pre_read
ResultValid(v) == ~(~Truthy(v) \/ ~HasAttr(v, "pre_read"))

EmptyResponseMsg == "LLM returned empty or invalid response"

LowerChar(c) ==
    CASE c = "A" -> "a" [] c = "B" -> "b" [] c = "C" -> "c" [] c = "D" -> "d"
      [] c = "E" -> "e" [] c = "F" -> "f" [] c = "G" -> "g" [] c = "H" -> "h"
      [] c = "I" -> "i" [] c = "J" -> "j" [] c = "K" -> "k" [] c = "L" -> "l"
      [] c = "M" -> "m" [] c = "N" -> "n" [] c = "O" -> "o" [] c = "P" -> "p"
      [] c = "Q" -> "q" [] c = "R" -> "r" [] c = "S" -> "s" [] c = "T" -> "t"
      [] c = "U" -> "u" [] c = "V" -> "v" [] c = "W" -> "w" [] c = "X" -> "x"
      [] c = "Y" -> "y" [] c = "Z" -> "z" [] OTHER -> c

\* str.lower()
RECURSIVE Lower(_)
Lower(s) ==
    IF Len(s) = 0 THEN ""
    ELSE LowerChar(SubSeq(s, 1, 1)) \o Lower(SubSeq(s, 2, Len(s)))

ValidationHint ==
    "\n\nThis usually means the LLM didn't return properly formatted content. "
    \o "Please check your API key and try again."

ApiHint ==
    "\n\nThis appears to be an API-related error. "
    \o "Please check your API key and internet connection."

\* the except clause matching the error text as it is, without lower()
ErrorMsg_CaseSensitive(e) ==
    LET base == "Error in content generation: " \o e.msg
    IN IF Contains(e.msg, "validation error") THEN base \o ValidationHint
       ELSE IF Contains(e.msg, "api") THEN base \o ApiHint
       ELSE base

\* the except clause: the message of the Exception raised for caught error e
ErrorMsg(e) ==
    LET base == "Error in content generation: " \o e.msg
    IN IF Contains(Lower(e.msg), "validation error") THEN base \o ValidationHint
       ELSE IF Contains(Lower(e.msg), "api") THEN base \o ApiHint
       ELSE base

(***************************************************************************)
(* Inputs.                                                                 *)
(***************************************************************************)
\* (topic, concept, concept_description) triples handed to the library
Inputs ==
    { [topic |-> "Psychology", concept |-> "The Zeigarnik Effect",
       concept_description |->
           "Why unfinished tasks bug your brain until you finally check them off"],
      [topic |-> "", concept |-> "", concept_description |-> ""] }

\* keyword arguments of a constructor call: any subset of the five counts,
\* each an integer, negative ones included
CtorKwargs == UNION {[S -> (-1)..MaxCount] : S \in SUBSET FieldSet}

\* configs handed to generate_learning_content: every constructible one
\* with all five counts given, next to None
GenConfigs ==
    {None} \cup {QuestionConfig(kw).val : kw \in [FieldSet -> 0..MaxGenCount]}

\* a store of credentials: each name absent or bound to one of vals
Stores(vals) == UNION {[S -> vals] : S \in SUBSET KeyNames}

\* lessons the client can parse out of a model answer: each satisfies the
\* BiteSizedContent schema.  LessonA has an empty pre_read, LessonB a
\* question whose explanation is the empty string, LessonC a matching
\* question; between them the five question models all occur.
LessonA ==
    BiteSizedContent("",
        << MCQQuestion("Which task nags you most?",
                       << MCQOption("The finished one", FALSE),
                          MCQOption("The open one", TRUE) >>,
                       "Open loops stay active in memory."),
           TrueFalseQuestion("Finished tasks are remembered best.", FALSE,
                             "Interrupted tasks are recalled more often.") >>,
        << "Open tasks occupy attention." >>,
        << "Zeigarnik", "Psychology", "Focus" >>,
        "The Zeigarnik Effect", "Psychology", 5, "beginner")

LessonB ==
    BiteSizedContent("Ever left a tab open for days?",
        << FillInBlankQuestion("Unfinished tasks create mental _____.",
                               "tension", << "calm", "sleep", "noise" >>, ""),
           OrderingQuestion("Order the steps of closing a loop.",
                            << "Notice", "Write down", "Finish" >>,
                            "Writing it down releases the tension.") >>,
        << "Write open tasks down.", "Close loops early." >>,
        << "Zeigarnik", "Productivity", "Memory" >>,
        "The Zeigarnik Effect", "Psychology", 5, "intermediate")

LessonC ==
    BiteSizedContent("Why do cliffhangers work?",
        << MatchingQuestion("Match each term to its definition",
                            << MatchingPair("Open loop", "Unfinished task"),
                               MatchingPair("Closure", "Finished task") >>,
                            "Each pair shows one side of the effect."),
           MCQQuestion("What keeps a cliffhanger in mind?",
                       << MCQOption("Closure", FALSE),
                          MCQOption("An open loop", TRUE) >>,
                       "The story is an unfinished task.") >>,
        << "Stories use open loops." >>,
        << "Zeigarnik", "Storytelling", "Attention" >>,
        "The Zeigarnik Effect", "Psychology", 5, "beginner")

\* what client.qna_engine.generate_questions can return
ClientResults ==
    { PyNone,
      PyValue("dict", 0, <<>>),
      PyValue("str", 12, <<>>),
      LessonA, LessonB, LessonC }

\* what client.qna_engine.generate_questions can raise
ClientErrors ==
    { Exception("ValidationError", "1 validation error for BiteSizedContent"),
      Exception("AuthenticationError", "Error code: 401 - Invalid API key"),
      Exception("ValidationError", "2 Validation Errors for API response"),
      Exception("TimeoutError", "Request timed out.") }

(***************************************************************************)
(* SpecConfig: one constructor call, then library calls on its object.     *)
(***************************************************************************)
NoCall ==
    [op |-> "none", exc |-> None, num |-> 0, text |-> None, formats |-> 0,
     inputs |-> None, config |-> None]

NoOutcome == [kind |-> "none", val |-> None, exc |-> None]

\* no run of main() has taken place
NoRun ==
    [ran |-> FALSE, shown |-> "nothing", gate |-> FALSE, counts |-> None,
     config |-> None, pressed |-> FALSE, called |-> FALSE, export |-> None]

AppIdle ==
    /\ session = <<>>
    /\ last_run = NoRun
    /\ last_success = None

CallIdle ==
    /\ pc = "idle"
    /\ args = None
    /\ keys = <<"", "">>
    /\ llm = None
    /\ prompt = None
    /\ requests = <<>>
    /\ result = None
    /\ caught = None
    /\ outcome = NoOutcome

InitConfig ==
    /\ kwargs \in CtorKwargs
    /\ cfg = None
    /\ ret = NoCall
    /\ secrets_readable = FALSE
    /\ secrets = <<>>
    /\ environ = <<>>
    /\ CallIdle
    /\ AppIdle

\* cfg = QuestionConfig(**kwargs)
Construct ==
    /\ ret.op = "none"
    /\ LET r == QuestionConfig(kwargs)
       IN /\ cfg' = r.val
          /\ ret' = [NoCall EXCEPT !.op = "QuestionConfig", !.exc = r.exc]
    /\ UNCHANGED <<kwargs, envVars, appVars, callVars>>

\* cfg.total_questions
TotalQuestions ==
    /\ cfg # None
    /\ ret' = [NoCall EXCEPT !.op = "total_questions",
                             !.num = total_questions(cfg[1]),
                             !.config = cfg]
    /\ UNCHANGED <<kwargs, cfg, envVars, appVars, callVars>>

\* cfg.to_prompt_string()
ToPromptString ==
    /\ cfg # None
    /\ ret' = [NoCall EXCEPT !.op = "to_prompt_string",
                             !.text = Some(to_prompt_string(cfg[1])),
                             !.config = cfg]
    /\ UNCHANGED <<kwargs, cfg, envVars, appVars, callVars>>

\* generate_content_prompt(topic, concept, concept_description[, cfg])
GenerateContentPrompt ==
    /\ ret.op # "none"
    /\ \E i \in Inputs, qc \in {None, cfg} :
          LET r == generate_content_prompt(i.topic, i.concept,
                                           i.concept_description, qc)
          IN ret' = [NoCall EXCEPT !.op = "generate_content_prompt",
                                   !.exc = r.exc,
                                   !.text = r.val,
                                   !.formats = r.formats,
                                   !.inputs = Some(i),
                                   !.config = qc]
    /\ UNCHANGED <<kwargs, cfg, envVars, appVars, callVars>>

NextConfig ==
    \/ Construct
    \/ TotalQuestions
    \/ ToPromptString
    \/ GenerateContentPrompt

SpecConfig == InitConfig /\ [][NextConfig]_vars

(***************************************************************************)
(* Spec: generate_learning_content (src/microlesson.py 404-494), one       *)
(* action per step of the function, ordered by pc.                         *)
(***************************************************************************)
Init ==
    /\ kwargs = <<>>
    /\ cfg = None
    /\ ret = NoCall
    /\ secrets_readable \in BOOLEAN
    /\ secrets \in (IF secrets_readable THEN Stores({"", "sk-secrets"}) ELSE {<<>>})
    /\ environ \in Stores({"sk-env"})
    /\ CallIdle
    /\ AppIdle

Raised(e) == [kind |-> "raised", val |-> None, exc |-> Some(e)]
Returned(v) == [kind |-> "returned", val |-> Some(v), exc |-> None]

\* the caller invokes generate_learning_content(topic, concept,
\* concept_description, question_config)
Call ==
    /\ pc = "idle"
    /\ \E i \in Inputs, qc \in GenConfigs :
          args' = Some([topic |-> i.topic, concept |-> i.concept,
                        concept_description |-> i.concept_description,
                        question_config |-> qc])
    /\ pc' = "get_api_key"
    /\ UNCHANGED <<configVars, envVars, appVars, keys, llm, prompt, requests, result,
                   caught, outcome>>

\* line 440: openrouter_key, cerebras_key = get_api_key()
GetApiKey ==
    /\ pc = "get_api_key"
    /\ keys' = get_api_key(secrets_readable, secrets, environ)
    /\ pc' = "setup_llm"
    /\ UNCHANGED <<configVars, envVars, appVars, args, llm, prompt, requests, result,
                   caught, outcome>>

\* lines 443-456: select the backend, or raise ValueError to the caller
SetupLlm ==
    /\ pc = "setup_llm"
    /\ LET r == SetupLLM(keys[1], keys[2])
       IN IF r.exc # None
          THEN /\ outcome' = Raised(r.exc[1])
               /\ pc' = "done"
               /\ UNCHANGED llm
          ELSE /\ llm' = r.val
               /\ pc' = "build_prompt"
               /\ UNCHANGED outcome
    /\ UNCHANGED <<configVars, envVars, appVars, args, keys, prompt, requests, result,
                   caught>>

\* lines 458-466: build the client, default the config, build the prompt;
\* the ValueError of generate_content_prompt is raised outside the try
BuildPrompt ==
    /\ pc = "build_prompt"
    /\ LET a == args[1]
           qc == IF a.question_config = None
                 THEN QuestionConfig(<<>>).val
                 ELSE a.question_config
           r == generate_content_prompt(a.topic, a.concept,
                                        a.concept_description, qc)
       IN /\ args' = Some([a EXCEPT !.question_config = qc])
          /\ IF r.exc # None
             THEN /\ outcome' = Raised(r.exc[1])
                  /\ pc' = "done"
                  /\ UNCHANGED prompt
             ELSE /\ prompt' = r.val
                  /\ pc' = "request"
                  /\ UNCHANGED outcome
    /\ UNCHANGED <<configVars, envVars, appVars, keys, llm, requests, result, caught>>

\* lines 470-476: the one call of client.qna_engine.generate_questions; the
\* client returns some value or raises some error
Request ==
    /\ pc = "request"
    /\ requests' = Append(requests,
                          [llm |-> llm[1],
                           topic |-> args[1].topic,
                           concept |-> args[1].concept,
                           num |-> total_questions(args[1].question_config[1]),
                           prompt_template |-> prompt[1],
                           response_model |-> "BiteSizedContent"])
    /\ \/ \E v \in ClientResults :
             /\ v.type = "BiteSizedContent" => SchemaAccepts(v)
             /\ result' = Some(v)
             /\ pc' = "validate"
             /\ UNCHANGED caught
       \/ \E e \in ClientErrors :
             /\ caught' = Some(e)
             /\ pc' = "except"
             /\ UNCHANGED result
    /\ UNCHANGED <<configVars, envVars, appVars, args, keys, llm, prompt, outcome>>

\* lines 478-482: validate the result and return it, or raise ValueError
\* inside the try
Validate ==
    /\ pc = "validate"
    /\ IF ResultValid(result[1])
       THEN /\ outcome' = Returned(result[1])
            /\ pc' = "done"
            /\ UNCHANGED caught
       ELSE /\ caught' = Some(Exception("ValueError", EmptyResponseMsg))
            /\ pc' = "except"
            /\ UNCHANGED outcome
    /\ UNCHANGED <<configVars, envVars, appVars, args, keys, llm, prompt, requests,
                   result>>

\* an except clause that fails over: with the other credential at hand it
\* builds the fallback client and sends the request again
Except_Failover ==
    /\ pc = "except"
    /\ IF keys[2] # "" /\ Len(requests) < 2
       THEN /\ llm' = SetupLLM("", keys[2]).val
            /\ pc' = "request"
            /\ UNCHANGED outcome
       ELSE /\ outcome' = Raised(Exception("Exception", ErrorMsg(caught[1])))
            /\ pc' = "done"
            /\ UNCHANGED llm
    /\ UNCHANGED <<configVars, envVars, appVars, args, keys, prompt, requests, result,
                   caught>>

\* lines 484-494: wrap the caught error and raise Exception(error_msg)
Except ==
    /\ pc = "except"
    /\ outcome' = Raised(Exception("Exception", ErrorMsg(caught[1])))
    /\ pc' = "done"
    /\ UNCHANGED <<configVars, envVars, appVars, args, keys, llm, prompt, requests,
                   result, caught>>

\* the caller has the outcome; the call's locals are gone
Finish ==
    /\ pc = "done"
    /\ pc' = "idle"
    /\ args' = None
    /\ keys' = <<"", "">>
    /\ llm' = None
    /\ prompt' = None
    /\ requests' = <<>>
    /\ result' = None
    /\ caught' = None
    /\ outcome' = NoOutcome
    /\ UNCHANGED <<configVars, envVars, appVars>>

Next ==
    \/ Call
    \/ GetApiKey
    \/ SetupLlm
    \/ BuildPrompt
    \/ Request
    \/ Validate
    \/ Except
    \/ Finish

Spec == Init /\ [][Next]_vars

(***************************************************************************)
(* Properties of generate_learning_content, checked under Spec.            *)
(***************************************************************************)
OpenRouterBase == "https://openrouter.ai/api/v1"
CerebrasBase == "https://api.cerebras.ai/v1"

\* the named credential is found nowhere: not in st.secrets (or only as the
\* empty string) and not in the environment
Absent(name) ==
    /\ Get(secrets, name, "") = ""
    /\ Get(environ, name, "") = ""

NoCredentials == \A name \in KeyNames : Absent(name)

\* C1: in a generate call made while neither OPENROUTER_API_KEY nor
\* CEREBRAS_API_KEY is present, the LLM client receives no request, the call
\* never gets past the backend selection, and it ends by raising the
\* ValueError "No API key found...", whatever the arguments are.
C1_NoCredentialsFailsWithoutRequest ==
    NoCredentials =>
        /\ requests = <<>>
        /\ pc \notin {"build_prompt", "request", "validate", "except"}
        /\ pc = "done" => outcome = Raised(Exception("ValueError", NoKeyMsg))

C1_Witness ==
    /\ NoCredentials
    /\ pc = "done"
    /\ outcome.kind = "raised"
    /\ args[1].question_config # None
    /\ args[1].topic = "Psychology"

\* the backend has been selected in the running call
Selected == pc \in {"build_prompt", "request", "validate", "except"} \/ llm # None

\* C2: once the backend is selected, a non-empty resolved primary key
\* (openrouter_key) means the primary backend is the selected one, built
\* with that key, also when the fallback key is non-empty; the fallback
\* backend is the selected one exactly when the resolved primary key is
\* empty and the resolved fallback key (cerebras_key) is not.
C2_BackendPriority ==
    pc \in {"build_prompt", "request", "validate", "except", "done"} =>
        /\ keys[1] # "" =>
              /\ llm # None
              /\ llm[1].openai_api_base = OpenRouterBase
              /\ llm[1].openai_api_key = keys[1]
        /\ (llm # None /\ llm[1].openai_api_base = CerebrasBase)
              <=> (keys[1] = "" /\ keys[2] # "")
        /\ (llm # None /\ llm[1].openai_api_base = CerebrasBase)
              => llm[1].openai_api_key = keys[2]

C2_Witness ==
    /\ pc = "request"
    /\ keys[1] # ""
    /\ keys[2] # ""
    /\ llm[1].openai_api_base = OpenRouterBase

\* C3: a generate call sends at most one request to the LLM client, and
\* exactly one when a backend was selected and the prompt was built; a call
\* whose request failed ends with that one request on record, every request
\* goes to the backend selected at the start of the call, and none goes to
\* the fallback backend when the primary key is non-empty.
C3_AtMostOneRequest ==
    /\ Len(requests) <= 1
    /\ \A i \in 1..Len(requests) :
          /\ requests[i].llm = llm[1]
          /\ keys[1] # "" => requests[i].llm.openai_api_base = OpenRouterBase
    /\ (pc = "done" /\ llm # None /\ prompt # None) => Len(requests) = 1
    /\ (pc \in {"validate", "except"}) => Len(requests) = 1
    /\ (pc = "done" /\ outcome.kind = "returned") => Len(requests) = 1

C3_Witness ==
    /\ pc = "done"
    /\ outcome.kind = "raised"
    /\ result = None
    /\ caught # None
    /\ Len(requests) = 1
    /\ keys[1] # ""
    /\ keys[2] # ""

\* the running call was given a config whose five counts sum to zero
ZeroTotalCall ==
    /\ args # None
    /\ args[1].question_config # None
    /\ total_questions(args[1].question_config[1]) = 0

\* C5: in a generate call made with a zero-total config the LLM client
\* receives no request: the call never reaches the request, and with a
\* credential present it ends by raising the ValueError of the config check.
C5_ZeroTotalFailsBeforeRequest ==
    ZeroTotalCall =>
        /\ requests = <<>>
        /\ pc \notin {"request", "validate", "except"}
        /\ (pc = "done" /\ llm # None)
              => outcome = Raised(Exception("ValueError", EmptyConfigMsg))

C5_Witness ==
    /\ ZeroTotalCall
    /\ pc = "done"
    /\ llm # None
    /\ outcome.kind = "raised"
    /\ requests = <<>>

\* the call has ended and the LLM client had returned a value
Answered == pc = "done" /\ result # None

EmptyResponseError ==
    Exception("Exception", "Error in content generation: " \o EmptyResponseMsg)

\* C10 as amended: generate returns exactly the client's result, and only
\* when that result is truthy (not None, not an empty container) and has a
\* pre_read attribute; for None, a falsy value or a value without pre_read
\* the call raises the empty-response error; a BiteSizedContent is returned
\* whatever its pre_read holds, the empty string included.
C10_ReturnsOnlyResultWithPreRead ==
    Answered =>
        LET v == result[1]
            has == "pre_read" \in DOMAIN v.attrs
            falsy == v.type = "NoneType"
                     \/ (v.type \in {"dict", "list", "str"} /\ v.len = 0)
        IN /\ outcome.kind = "returned" => (outcome.val = result /\ ~falsy /\ has)
           /\ (falsy \/ ~has) => outcome = Raised(EmptyResponseError)
           /\ v.type = "BiteSizedContent" => outcome = Returned(v)

C10_Witness ==
    /\ Answered
    /\ outcome.kind = "returned"
    /\ result[1].type = "BiteSizedContent"
    /\ result[1].attrs.pre_read = ""

\* C10 as first stated: generate returns only a result that is non-null and
\* has a non-empty pre_read; a null result, one without pre_read or one with
\* an empty pre_read makes the call raise the empty-response error.
C10_Original ==
    Answered =>
        LET v == result[1]
            populated == "pre_read" \in DOMAIN v.attrs /\ v.attrs.pre_read # ""
        IN /\ outcome.kind = "returned" => (v.type # "NoneType" /\ populated)
           /\ (v.type = "NoneType" \/ ~populated)
                 => outcome = Raised(EmptyResponseError)

(***************************************************************************)
(* Properties of QuestionConfig and the prompt builder, checked under      *)
(* SpecConfig.                                                             *)
(***************************************************************************)
\* the config a generate_content_prompt call worked on: the one passed, or
\* the baseline config when none was passed
EffectiveConfig ==
    IF ret.config = None THEN [mcq |-> 2, true_false |-> 2, fill_blank |-> 1,
                               matching |-> 0, ordering |-> 0]
    ELSE ret.config[1]

\* C4: generate_content_prompt called with a config whose five counts sum
\* to zero raises the ValueError "Question configuration must have at least
\* one question...", has not called DYNAMIC_PROMPT_TEMPLATE.format and
\* hands back no prompt.
C4_ZeroTotalPromptFails ==
    (ret.op = "generate_content_prompt" /\ ret.config # None
        /\ \A f \in FieldSet : ret.config[1][f] = 0) =>
        /\ ret.exc = Some(Exception("ValueError", EmptyConfigMsg))
        /\ ret.formats = 0
        /\ ret.text = None

C4_Witness ==
    /\ ret.op = "generate_content_prompt"
    /\ ret.config = Some([f \in FieldSet |-> 0])
    /\ ret.exc # None
    /\ ret.inputs[1].topic = "Psychology"

\* the label to_prompt_string is to print for each question type
Label(f) ==
    CASE f = "mcq" -> "Multiple Choice (MCQ)"
      [] f = "true_false" -> "True/False"
      [] f = "fill_blank" -> "Fill in the Blank"
      [] f = "matching" -> "Matching"
      [] f = "ordering" -> "Ordering"

\* "<count> <Label>" of type f in config c
Entry(c, f) == Str(c[f]) \o " " \o Label(f)

\* the entries of the types after position i whose count is not zero, in
\* the fixed order, each preceded by ", "
RECURSIVE RestEntries(_, _)
RestEntries(c, i) ==
    IF i > Len(FieldNames) THEN ""
    ELSE (IF c[FieldNames[i]] # 0 THEN ", " \o Entry(c, FieldNames[i]) ELSE "")
         \o RestEntries(c, i + 1)

\* the distribution string the claim describes: the nonzero entries in the
\* order mcq, true_false, fill_blank, matching, ordering, joined by ", "
ExpectedDistribution(c) ==
    LET all == RestEntries(c, 1)
    IN IF all = "" THEN "" ELSE SubSeq(all, 3, Len(all))

\* C6: for a config with non-negative counts summing to at least 1,
\* to_prompt_string returns exactly the "<count> <Label>" entries of the
\* types with a nonzero count, in the order mcq, true_false, fill_blank,
\* matching, ordering, joined by ", "; the label of a type is in the string
\* exactly when its count is nonzero; (2,2,1,0,0) gives
\* "2 Multiple Choice (MCQ), 2 True/False, 1 Fill in the Blank".
C6_DistributionString ==
    (ret.op = "to_prompt_string"
        /\ ret.config[1].mcq + ret.config[1].true_false + ret.config[1].fill_blank
           + ret.config[1].matching + ret.config[1].ordering >= 1) =>
        LET c == ret.config[1]
            out == ret.text[1]
        IN /\ \A f \in FieldSet : c[f] >= 0
           /\ out = ExpectedDistribution(c)
           /\ \A f \in FieldSet : Contains(out, Label(f)) <=> c[f] # 0
           /\ c = [mcq |-> 2, true_false |-> 2, fill_blank |-> 1,
                   matching |-> 0, ordering |-> 0]
                 => out = "2 Multiple Choice (MCQ), 2 True/False, 1 Fill in the Blank"

C6_Witness ==
    /\ ret.op = "to_prompt_string"
    /\ ret.config = Some([mcq |-> 2, true_false |-> 2, fill_blank |-> 1,
                          matching |-> 0, ordering |-> 0])
    /\ ret.text = Some("2 Multiple Choice (MCQ), 2 True/False, 1 Fill in the Blank")

RECURSIVE SumSeq(_)
SumSeq(q) == IF Len(q) = 0 THEN 0 ELSE Head(q) + SumSeq(Tail(q))

\* C7: total_questions is the sum of the five counts, and it is the same
\* for every config that holds the same counts assigned to the fields in
\* another order.
C7_TotalIsSum ==
    ret.op = "total_questions" =>
        LET c == ret.config[1]
        IN /\ ret.num = SumSeq([i \in 1..Len(FieldNames) |-> c[FieldNames[i]]])
           /\ \A p \in Permutations(FieldSet) :
                 total_questions([f \in FieldSet |-> c[p[f]]]) = ret.num

C7_Witness ==
    /\ ret.op = "total_questions"
    /\ ret.config[1].mcq = 0
    /\ ret.config[1].ordering = 2
    /\ ret.num = 5

\* C8: for a config with total_questions >= 1 and any topic, concept and
\* description, generate_content_prompt returns a prompt; the prompt holds
\* the decimal total_questions count (in "Generate EXACTLY <n> questions")
\* and the "<count> <Label>" entry of every type with a nonzero count.
C8_PromptHoldsTotalAndEntries ==
    (ret.op = "generate_content_prompt"
        /\ SumSeq([i \in 1..Len(FieldNames) |-> EffectiveConfig[FieldNames[i]]]) >= 1) =>
        LET c == EffectiveConfig
            n == SumSeq([i \in 1..Len(FieldNames) |-> c[FieldNames[i]]])
        IN /\ ret.exc = None
           /\ ret.text # None
           /\ Contains(ret.text[1], Str(n))
           /\ Contains(ret.text[1], "Generate EXACTLY " \o Str(n) \o " questions")
           /\ \A f \in FieldSet :
                 c[f] # 0 => Contains(ret.text[1], Entry(c, f))

C8_Witness ==
    /\ ret.op = "generate_content_prompt"
    /\ ret.config = Some([f \in FieldSet |-> 2])
    /\ ret.text # None
    /\ Contains(ret.text[1], "EXACTLY 10 questions")
    /\ ret.inputs[1].topic = "Psychology"

\* C9: a constructor call handed a negative count produces no object and
\* raises pydantic's ValidationError; every QuestionConfig object, and so
\* every config handed to to_prompt_string, total_questions or
\* generate_content_prompt, has all five counts >= 0; a count that was not
\* passed has the baseline value: 2 mcq, 2 true_false, 1 fill_blank,
\* 0 matching, 0 ordering; a passed count is kept as passed.
C9_NoNegativeConfigExists ==
    /\ (ret.op # "none" /\ \E f \in DOMAIN kwargs : kwargs[f] < 0) =>
          /\ cfg = None
          /\ ret.op = "QuestionConfig" =>
                (ret.exc # None /\ ret.exc[1].type = "ValidationError")
    /\ cfg # None =>
          /\ \A f \in FieldSet : cfg[1][f] >= 0
          /\ \A f \in FieldSet \ DOMAIN kwargs :
                cfg[1][f] = [mcq |-> 2, true_false |-> 2, fill_blank |-> 1,
                             matching |-> 0, ordering |-> 0][f]
          /\ \A f \in DOMAIN kwargs : cfg[1][f] = kwargs[f]
    /\ ret.config # None => \A f \in FieldSet : ret.config[1][f] >= 0

C9_Witness ==
    /\ ret.op = "QuestionConfig"
    /\ cfg = None
    /\ ret.exc # None
    /\ DOMAIN kwargs = {"matching"}
    /\ kwargs["matching"] = -1

\* C13: every BiteSizedContent returned by a successful generate call has a
\* non-empty explanation string on each of its questions.
C13_ExplanationsNonEmpty ==
    (pc = "done" /\ outcome.kind = "returned") =>
        \A i \in 1..Len(outcome.val[1].attrs.questions) :
            outcome.val[1].attrs.questions[i].attrs.explanation # ""

\* the value st.secrets yields for a name: "" when the store cannot be read
\* or does not hold the name
SecretValue(name) ==
    IF secrets_readable THEN Get(secrets, name, "") ELSE ""

\* the first non-empty value of the two sources, the secret store before
\* the environment
OrderedLookup(name) ==
    IF SecretValue(name) # "" THEN SecretValue(name) ELSE Get(environ, name, "")

\* C15: get_api_key resolves each credential from the secret store first
\* and the environment second, taking the first non-empty value: a key that
\* is absent or empty in the store and set in the environment resolves to
\* the environment's value, also when the store itself can be read.
C15_OrderedLookup ==
    pc \notin {"idle", "get_api_key"} =>
        /\ keys[1] = OrderedLookup("OPENROUTER_API_KEY")
        /\ keys[2] = OrderedLookup("CEREBRAS_API_KEY")

\* the hint the claim assigns to an error text
ExpectedHint(text) ==
    IF Contains(Lower(text), "validation error") THEN ValidationHint
    ELSE IF Contains(Lower(text), "api") THEN ApiHint
    ELSE ""

\* C16: a call in which the client request or the result check failed ends
\* by raising Exception whose message is "Error in content generation: ",
\* the text of the underlying error, and the one hint picked by matching
\* that text without regard to case: the validation hint when it holds
\* "validation error", else the API hint when it holds "api", else nothing;
\* the message never holds both hints.
C16_ErrorHints ==
    (pc = "done" /\ caught # None) =>
        LET text == caught[1].msg
            msg == outcome.exc[1].msg
        IN /\ outcome.kind = "raised"
           /\ outcome.exc[1].type = "Exception"
           /\ Contains(msg, text)
           /\ msg = "Error in content generation: " \o text \o ExpectedHint(text)
           /\ ~(Contains(msg, ValidationHint) /\ Contains(msg, ApiHint))
           /\ text = "1 validation error for BiteSizedContent"
                 => Contains(msg, ValidationHint)
           /\ text = "Error code: 401 - Invalid API key"
                 => (Contains(msg, ApiHint) /\ ~Contains(msg, ValidationHint))
           /\ text = "2 Validation Errors for API response"
                 => (Contains(msg, ValidationHint) /\ ~Contains(msg, ApiHint))
           /\ text \in {"Request timed out.", EmptyResponseMsg}
                 => msg = "Error in content generation: " \o text

C16_Witness ==
    /\ pc = "done"
    /\ caught # None
    /\ caught[1].msg = "2 Validation Errors for API response"
    /\ outcome.kind = "raised"
    /\ Contains(outcome.exc[1].msg, ValidationHint)

(***************************************************************************)
(* The Streamlit front end (src/app.py).  Streamlit runs main() from the   *)
(* top on every interaction; st.session_state outlives the runs.           *)
(***************************************************************************)
\* the count entered in a sidebar number_input that is not left at 0
MaxUiCount == 1

\* init_session_state that resets both keys on every run
init_session_state_Reset(ss) ==
    [k \in DOMAIN ss \cup {"generated_content", "api_configured"} |->
        CASE k = "generated_content" -> None
          [] k = "api_configured" -> FALSE
          [] OTHER -> ss[k]]

\* init_session_state: a key is written only when it is not in the dict
init_session_state(ss) ==
    [k \in DOMAIN ss \cup {"generated_content", "api_configured"} |->
        IF k \in DOMAIN ss THEN ss[k]
        ELSE IF k = "generated_content" THEN None ELSE FALSE]

\* check_api_configuration without its final return False: the page is
\* let through whenever st.secrets can be read
check_api_configuration_NoBlock(readable, secretStore, ss) ==
    IF ~readable
    THEN [val |-> FALSE, session |-> ss]
    ELSE [val |-> TRUE, session |-> [ss EXCEPT !.api_configured = TRUE]]

\* check_api_configuration: reads st.secrets only; a missing secrets file
\* (FileNotFoundError) answers False, and so do two empty keys
check_api_configuration(readable, secretStore, ss) ==
    IF ~readable
    THEN [val |-> FALSE, session |-> ss]
    ELSE LET openrouter_key == Get(secretStore, "OPENROUTER_API_KEY", "")
             cerebras_key == Get(secretStore, "CEREBRAS_API_KEY", "")
         IN IF openrouter_key # "" \/ cerebras_key # ""
            THEN [val |-> TRUE,
                  session |-> [ss EXCEPT !.api_configured = TRUE]]
            ELSE [val |-> FALSE, session |-> ss]

\* what the five number_inputs (min_value=0) hold: the widgets' defaults,
\* or each count either 0 or MaxUiCount
SidebarCounts ==
    {[f \in FieldSet |-> FieldDefault(f)]} \cup [FieldSet -> {0, MaxUiCount}]

\* create_sidebar that hands a zero-total config on
create_sidebar_NoCheck(texts, counts) ==
    Some([topic |-> texts.topic, concept |-> texts.concept,
          concept_description |-> texts.concept_description,
          question_config |-> QuestionConfig(counts).val])

\* create_sidebar: the three texts and the QuestionConfig built from the
\* counts, or (None, None, None, None) when the counts sum to zero
create_sidebar(texts, counts) ==
    LET question_config == QuestionConfig(counts).val
    IN IF total_questions(question_config[1]) = 0
       THEN None
       ELSE Some([topic |-> texts.topic, concept |-> texts.concept,
                  concept_description |-> texts.concept_description,
                  question_config |-> question_config])

\* main() lines 256-283 with an except clause that also clears the slot
AfterGenerate_ClearOnError(ss, out) ==
    IF out.kind = "returned"
    THEN [session |-> [ss EXCEPT !.generated_content = out.val],
          returns |-> FALSE]
    ELSE [session |-> [ss EXCEPT !.generated_content = None],
          returns |-> TRUE]

\* main() lines 256-283: a returned lesson is stored in
\* st.session_state.generated_content; an exception is shown and main
\* returns without touching the session
AfterGenerate(ss, out) ==
    IF out.kind = "returned"
    THEN [session |-> [ss EXCEPT !.generated_content = out.val],
          returns |-> FALSE]
    ELSE [session |-> ss, returns |-> TRUE]

\* line 286: `if st.session_state.generated_content:`
HasContent(ss) ==
    /\ ss.generated_content # None
    /\ Truthy(ss.generated_content[1])

\* lines 327-336: the f-string the text export starts with
ExportHeader(content) ==
    "\n# " \o content.attrs.concept_name
    \o "\nTopic: " \o content.attrs.topic
    \o "\nTime: " \o Str(content.attrs.estimated_time) \o " minutes"
    \o "\nLevel: " \o content.attrs.difficulty_level
    \o "\n\n## Pre-Read\n" \o content.attrs.pre_read
    \o "\n\n## Questions\n"

\* line 339: q.question_text if hasattr(q, 'question_text') else q.statement;
\* reading a missing attribute raises AttributeError
QuestionLine(q) ==
    IF HasAttr(q, "question_text")
    THEN [exc |-> None, val |-> Some(q.attrs.question_text)]
    ELSE IF HasAttr(q, "statement")
         THEN [exc |-> None, val |-> Some(q.attrs.statement)]
         ELSE [exc |-> Some(Exception("AttributeError",
                   "'" \o q.type \o "' object has no attribute 'statement'")),
               val |-> None]

\* lines 338-341: the loop over content.questions, from question i on, with
\* the text built so far; the first AttributeError ends it
RECURSIVE ExportQuestions(_, _, _)
ExportQuestions(questions, i, text) ==
    IF i > Len(questions)
    THEN [exc |-> None, val |-> Some(text)]
    ELSE LET q == questions[i]
             line == QuestionLine(q)
         IN IF line.exc # None
            THEN [exc |-> line.exc, val |-> None]
            ELSE ExportQuestions(questions, i + 1,
                    text \o "\n" \o Str(i) \o ". " \o line.val[1] \o "\n"
                    \o (IF HasAttr(q, "explanation")
                        THEN "   Explanation: " \o q.attrs.explanation \o "\n"
                        ELSE ""))

\* lines 344-345: the numbered summary points
RECURSIVE ExportSummary(_, _)
ExportSummary(summary, i) ==
    IF i > Len(summary) THEN ""
    ELSE Str(i) \o ". " \o summary[i] \o "\n" \o ExportSummary(summary, i + 1)

\* lines 327-347: the text handed to st.download_button, or the exception
\* that escapes main()
ExportText(content) ==
    LET qs == ExportQuestions(content.attrs.questions, 1, ExportHeader(content))
    IN IF qs.exc # None
       THEN qs
       ELSE [exc |-> None,
             val |-> Some(qs.val[1] \o "\n## Summary\n"
                          \o ExportSummary(content.attrs.summary, 1)
                          \o "\n## Tags\n" \o Join(", ", content.attrs.tags))]

\* texts in the three sidebar inputs: the widgets' defaults
SidebarTexts ==
    { [topic |-> "Psychology", concept |-> "The Zeigarnik Effect",
       concept_description |->
           "Why unfinished tasks bug your brain until you finally check them off"] }

\* lines 233-241: what every run of main() starts with
Gate == check_api_configuration(secrets_readable, secrets,
                                init_session_state(session))

Run(shown, gate, counts, config, pressed, called, export) ==
    [ran |-> TRUE, shown |-> shown, gate |-> gate, counts |-> counts,
     config |-> config, pressed |-> pressed, called |-> called,
     export |-> export]

\* lines 241-243: no key in st.secrets; the setup page is shown and main
\* returns
MainBlocked ==
    /\ pc = "idle"
    /\ ~Gate.val
    /\ session' = Gate.session
    /\ last_run' = Run("setup", FALSE, None, None, FALSE, FALSE, None)
    /\ UNCHANGED <<configVars, envVars, callVars, last_success>>

\* lines 246-249: the sidebar gave no config; a warning is shown and main
\* returns
MainNoConfig ==
    /\ pc = "idle"
    /\ Gate.val
    /\ \E texts \in SidebarTexts, counts \in SidebarCounts :
          /\ create_sidebar(texts, counts) = None
          /\ last_run' = Run("warning", TRUE, Some(counts), None, FALSE,
                             FALSE, None)
    /\ session' = Gate.session
    /\ UNCHANGED <<configVars, envVars, callVars, last_success>>

\* lines 254-263: the Generate button was pressed; generate_learning_content
\* is called with the sidebar's values
MainGenerate ==
    /\ pc = "idle"
    /\ Gate.val
    /\ \E texts \in SidebarTexts, counts \in SidebarCounts :
          LET sidebar_result == create_sidebar(texts, counts)
          IN /\ sidebar_result # None
             /\ args' = sidebar_result
             /\ last_run' = Run("spinner", TRUE, Some(counts),
                                sidebar_result[1].question_config, TRUE,
                                TRUE, None)
    /\ pc' = "get_api_key"
    /\ session' = Gate.session
    /\ UNCHANGED <<configVars, envVars, keys, llm, prompt, requests, result,
                   caught, outcome, last_success>>

\* lines 265-286: the call is over; its lesson is stored and displayed, or
\* its error is shown and main returns
MainResume ==
    /\ pc = "done"
    /\ LET r == AfterGenerate(session, outcome)
       IN /\ session' = r.session
          /\ last_run' = [last_run EXCEPT !.shown =
                             IF r.returns THEN "error"
                             ELSE IF HasContent(r.session) THEN "content"
                             ELSE "empty"]
    /\ last_success' = IF outcome.kind = "returned" THEN outcome.val
                       ELSE last_success
    /\ pc' = "idle"
    /\ args' = None
    /\ keys' = <<"", "">>
    /\ llm' = None
    /\ prompt' = None
    /\ requests' = <<>>
    /\ result' = None
    /\ caught' = None
    /\ outcome' = NoOutcome
    /\ UNCHANGED <<configVars, envVars>>

\* lines 254, 286-347: a run without the Generate button; the stored lesson
\* is displayed and, when Download was pressed, exported as text
MainRender ==
    /\ pc = "idle"
    /\ Gate.val
    /\ \E texts \in SidebarTexts, counts \in SidebarCounts, download \in BOOLEAN :
          LET sidebar_result == create_sidebar(texts, counts)
              export == IF download
                        THEN Some(ExportText(Gate.session.generated_content[1]))
                        ELSE None
          IN /\ sidebar_result # None
             /\ download => HasContent(Gate.session)
             /\ last_run' = Run(IF ~HasContent(Gate.session) THEN "empty"
                                ELSE IF download /\ export[1].exc # None
                                     THEN "exception" ELSE "content",
                                TRUE, Some(counts),
                                sidebar_result[1].question_config, FALSE,
                                FALSE, export)
    /\ session' = Gate.session
    /\ UNCHANGED <<configVars, envVars, callVars, last_success>>

\* a fresh session: st.secrets unreadable or holding any keys, the
\* environment empty or holding the OpenRouter key
InitApp ==
    /\ kwargs = <<>>
    /\ cfg = None
    /\ ret = NoCall
    /\ secrets_readable \in BOOLEAN
    /\ secrets \in (IF secrets_readable THEN Stores({"", "sk-secrets"}) ELSE {<<>>})
    /\ environ \in {<<>>, [OPENROUTER_API_KEY |-> "sk-env"]}
    /\ CallIdle
    /\ AppIdle

NextApp ==
    \/ MainBlocked
    \/ MainNoConfig
    \/ MainGenerate
    \/ GetApiKey
    \/ SetupLlm
    \/ BuildPrompt
    \/ Request
    \/ Validate
    \/ Except
    \/ MainResume
    \/ MainRender

SpecApp == InitApp /\ [][NextApp]_vars

(***************************************************************************)
(* Properties of the front end, checked under SpecApp.                     *)
(***************************************************************************)
\* the current-result slot: st.session_state.generated_content, empty
\* before the first run has created it
Slot ==
    IF "generated_content" \in DOMAIN session
    THEN session.generated_content
    ELSE None

\* C11: over any sequence of runs in one session, the current-result slot
\* equals the value returned by the most recent successful generate call, or
\* is empty if none has succeeded: a successful call overwrites the slot and a
\* failed call leaves it as it was.
C11_SlotIsLatestSuccess == Slot = last_success

C11_Witness ==
    /\ last_success # None
    /\ last_run.shown = "error"
    /\ pc = "idle"

\* C12: while neither credential is present (not in st.secrets, not in the
\* environment), every run shows the setup instructions and stops: no sidebar
\* config is built, no generate call starts, no request is sent, nothing is
\* rendered or exported.
C12_GateBlocksWithoutCredentials ==
    NoCredentials =>
        /\ pc = "idle"
        /\ args = None
        /\ requests = <<>>
        /\ last_run.shown \in {"nothing", "setup"}
        /\ ~last_run.gate
        /\ last_run.counts = None
        /\ last_run.config = None
        /\ ~last_run.pressed
        /\ ~last_run.called
        /\ last_run.export = None

C12_Witness ==
    /\ NoCredentials
    /\ secrets_readable
    /\ last_run.shown = "setup"

\* the text a question is asked with, whatever its variant
QuestionText(q) ==
    CASE q.type = "TrueFalseQuestion" -> q.attrs.statement
      [] q.type = "MatchingQuestion" -> q.attrs.instruction
      [] OTHER -> q.attrs.question_text

\* C14: a text export of the current result completes without error and
\* holds, for every question of the lesson whatever its variant, the
\* enumerated line with the question's text followed by its explanation
\* line, and then the Summary and Tags sections.
C14_ExportCoversEveryVariant ==
    last_run.export # None =>
        LET e == last_run.export[1]
            content == Slot[1]
        IN /\ e.exc = None
           /\ \A i \in 1..Len(content.attrs.questions) :
                 LET q == content.attrs.questions[i]
                 IN Contains(e.val[1],
                             "\n" \o Str(i) \o ". " \o QuestionText(q)
                             \o "\n   Explanation: " \o q.attrs.explanation
                             \o "\n")
           /\ Contains(e.val[1], "\n## Summary\n")
           /\ Contains(e.val[1], "\n## Tags\n"
                                 \o Join(", ", content.attrs.tags))

\* C17: a run whose five sidebar counts sum to zero shows the warning and
\* ends with no config and no generate call, and every generate call the
\* front end issues carries a config whose total_questions is at least 1.
C17_NoZeroTotalCallFromUi ==
    /\ args # None =>
          LET qc == args[1].question_config[1]
          IN qc.mcq + qc.true_false + qc.fill_blank + qc.matching
             + qc.ordering >= 1
    /\ (last_run.counts # None
        /\ \A f \in FieldSet : last_run.counts[1][f] = 0) =>
          /\ last_run.shown = "warning"
          /\ last_run.config = None
          /\ ~last_run.pressed
          /\ ~last_run.called
    /\ pc = "done" => outcome # Raised(Exception("ValueError", EmptyConfigMsg))

C17_Witness ==
    /\ last_run.shown = "warning"
    /\ last_run.counts # None
    /\ \A f \in FieldSet : last_run.counts[1][f] = 0
    /\ Slot # None

\* C18: the gate agrees with the generator's credential lookup: a run is
\* blocked with the setup page only where get_api_key resolves no
\* credential, and a generate call started behind the gate does not fail
\* for missing credentials.
C18_GateAgreesWithGenerator ==
    /\ last_run.shown = "setup" =>
          get_api_key(secrets_readable, secrets, environ) = <<"", "">>
    /\ (pc = "done" /\ outcome.kind = "raised") =>
          outcome.exc[1] # Exception("ValueError", NoKeyMsg)

SlotSet == Slot # None

====
